---- MODULE Spec2Model ----
(***************************************************************************)
(* Model of the exam-paper scraper: Scraper.start and                      *)
(* Scraper.download_paper of scraper.py, and the scrape queue of the       *)
(* MainWindow with its ScraperWorker threads of ui/windows.py.             *)
(*                                                                         *)
(* Strings the code inspects (hrefs, filenames, years) are sequences of    *)
(* one-character strings, so that endswith, split and the substring test   *)
(* are computed as the code computes them.  A parsed page (BeautifulSoup)  *)
(* is the sequence of its elements, each a record [tag, attrs].            *)
(***************************************************************************)
EXTENDS Integers, Sequences, FiniteSets, TLC

\* ------------------------------------------------------------------ bounds
\* Longest listing page (number of elements) the portal answers with.
MaxAnchors == 2
\* Longest listing page of the wider catalogue the link scan and the year
\* filter are run on.
MaxListing == 2

\* ------------------------------------------------------------ str helpers
\* s.endswith(suf)
EndsWith(s, suf) ==
    /\ Len(suf) <= Len(s)
    /\ SubSeq(s, Len(s) - Len(suf) + 1, Len(s)) = suf

\* sub in s
Contains(s, sub) ==
    \E i \in 1..(Len(s) - Len(sub) + 1) : SubSeq(s, i, i + Len(sub) - 1) = sub

\* s.split('/')[-1]: what follows the last '/', the whole of s when it has none
LastSegment(s) ==
    LET slashes == {i \in 1..Len(s) : s[i] = "/"}
        last == IF slashes = {} THEN 0
                ELSE CHOOSE i \in slashes : \A j \in slashes : j <= i
    IN SubSeq(s, last + 1, Len(s))

PdfSuffix == <<".", "p", "d", "f">>

\* s.upper(), for the characters module codes are written with
LowerCase == <<"a", "b", "c", "d", "e", "f", "g", "h", "i", "j", "k", "l", "m",
               "n", "o", "p", "q", "r", "s", "t", "u", "v", "w", "x", "y", "z">>
UpperCase == <<"A", "B", "C", "D", "E", "F", "G", "H", "I", "J", "K", "L", "M",
               "N", "O", "P", "Q", "R", "S", "T", "U", "V", "W", "X", "Y", "Z">>
UpperChar(c) ==
    IF \E i \in 1..Len(LowerCase) : LowerCase[i] = c
    THEN UpperCase[CHOOSE i \in 1..Len(LowerCase) : LowerCase[i] = c]
    ELSE c
Upper(s) == [i \in 1..Len(s) |-> UpperChar(s[i])]

\* ------------------------------------------------------------- the portal
\* hrefs the listing page may carry
HrefA2021 == <<"/", "a", "/", "e", "2", "0", "2", "1", ".", "p", "d", "f">>
HrefB2021 == <<"/", "b", "/", "e", "2", "0", "2", "1", ".", "p", "d", "f">>
HrefA2019 == <<"/", "a", "/", "e", "2", "0", "1", "9", ".", "p", "d", "f">>
HrefHtml  == <<"/", "a", "/", "e", "2", "0", "2", "1", ".", "h", "t", "m">>

Hrefs == {HrefA2021, HrefB2021, HrefA2019, HrefHtml}

Year2019 == <<"2", "0", "1", "9">>
Year2021 == <<"2", "0", "2", "1">>
Years == {Year2019, Year2021}

Anchor(h) == [tag |-> "a", attrs |-> [href |-> h]]
AnchorNoHref == [tag |-> "a", attrs |-> [id |-> <<"x">>]]
Input(n, v) == [tag |-> "input", attrs |-> [name |-> n, value |-> v]]

FormBuildIdName == <<"form_build_id">>
TokenA == <<"t", "A">>
TokenB == <<"t", "B">>

SeqsUpTo(S, n) == UNION {[1..k -> S] : k \in 0..n}

\* the landing page: with the portal's login form (a hidden form_build_id
\* input carrying its token as value), or without one
LandingPages ==
    { <<Input(FormBuildIdName, TokenA)>>,
      <<Input(<<"q">>, TokenB), Input(FormBuildIdName, TokenB)>>,
      <<Input(<<"q">>, TokenA)>>,
      <<>> }

ListingElements == {Anchor(h) : h \in Hrefs} \cup {AnchorNoHref}
ListingPages == SeqsUpTo(ListingElements, MaxAnchors)

\* a wider catalogue of hrefs for the link scan and the year filter: the year
\* inside a longer filename, the year in a directory only, the year inside a
\* longer digit run, two years, and suffixes that are not exactly ".pdf"
Year2022 == <<"2", "0", "2", "2">>
DirP == <<"/", "p", "/">>
Exam == <<"e", "x", "a", "m">>
May == <<"_", "m", "a", "y">>
HrefExam2021 == DirP \o Exam \o <<"_">> \o Year2021 \o May \o PdfSuffix
HrefExam2019 == DirP \o Exam \o <<"_">> \o Year2019 \o May \o PdfSuffix
HrefYearInDir == <<"/">> \o Year2021 \o <<"/">> \o Exam \o PdfSuffix
HrefDigitRun == DirP \o <<"n", "1">> \o Year2021 \o <<"3">> \o PdfSuffix
HrefTwoYears == DirP \o Year2021 \o <<"_">> \o Year2022 \o PdfSuffix
HrefUpperPdf == DirP \o Year2021 \o <<".", "P", "D", "F">>
HrefPdfQuery == DirP \o Year2021 \o PdfSuffix \o <<"?", "x">>
HrefMixedPdf == DirP \o Year2021 \o <<".", "P", "d", "f">>
HrefPdfFragment == DirP \o Year2021 \o PdfSuffix \o <<"#", "p">>

CatalogueHrefs == {HrefExam2021, HrefExam2019, HrefYearInDir, HrefDigitRun,
                   HrefTwoYears, HrefUpperPdf, HrefPdfQuery, HrefMixedPdf,
                   HrefPdfFragment}
CatalogueYears == {Year2019, Year2021, Year2022}
CataloguePages ==
    SeqsUpTo({Anchor(h) : h \in CatalogueHrefs} \cup {AnchorNoHref}, MaxListing)

\* responses of the portal
LandingStatuses == {200, 503}
LoginStatuses == {200, 403, 500}
ListingStatuses == {200, 404, 500}
PdfStatuses == {200, 404}

\* response.content of a PDF GET: what the portal serves under that url
Body(url) == IF url = HrefA2021 THEN "pdf-a-2021"
             ELSE IF url = HrefB2021 THEN "pdf-b-2021"
             ELSE "pdf-other"

\* ------------------------------------------------------------- filesystem
Filenames == {LastSegment(h) : h \in Hrefs}
Absent == "<absent>"
\* a file open(path, "wb") has created or truncated and not yet written
Empty == ""
OldContent == "old"

\* f"{output_folder}/{module_code}/papers"
Papers == <<"p", "a", "p", "e", "r", "s">>
OutputPath(folder, code) == folder \o <<"/">> \o code \o <<"/">> \o Papers
\* f"{output_folder}/{module_code}/papers/{filename}"
FilePath(folder, code, filename) ==
    folder \o <<"/">> \o code \o <<"/">> \o Papers \o <<"/">> \o filename

\* ------------------------------------------------------- return values
\* msg is the returned string as its words; lo and hi are the years an
\* f-string puts into it
Ret(type, msg, lo, hi) == [type |-> type, msg |-> msg, lo |-> lo, hi |-> hi]
NoResult == Ret("none", <<>>, <<>>, <<>>)
RetTrue == Ret("bool", <<"True">>, <<>>, <<>>)
ErrInvalidCredentials ==
    Ret("str", <<"Error:", "Invalid", "credentials">>, <<>>, <<>>)
ErrUnableToFetch ==
    Ret("str", <<"Error:", "Unable", "to", "fetch", "exam", "papers">>, <<>>, <<>>)
MsgNoPapersFound ==
    Ret("str", <<"No", "papers", "found", "for", "this", "module">>, <<>>, <<>>)
MsgNoPapersInYears(lo, hi) ==
    Ret("str", <<"No", "papers", "found", "for", "this", "module", "in", "years">>,
        lo, hi)
\* min() of an empty set
RaisedValueError == Ret("raise", <<"ValueError">>, <<>>, <<>>)

\* ------------------------------------------------------------------ state
VARIABLES
    gui,                \* the MainWindow: Start button, scrape queue, workers
    caller,             \* who calls start: the module code it was given
    module_code,        \* start's module_code argument
    exam_data,          \* the query of the listing GET, <<>> before it is built
    output_path,        \* start's output_path, <<>> before it is built
    allowed_years,      \* self.allowed_years
    progress_callback,  \* whether self.progress_callback is set and callable
    pc,                 \* where start is
    login_page,         \* the landing-page response: [status, page]
    soup,               \* the page last parsed
    login_data,         \* the login payload, <<>> before it is built
    res,                \* the response to the login POST: [status, page]
    http,               \* requests start has issued, and how they were answered
    papers,             \* hrefs ending in .pdf
    filtered_papers,    \* those that pass the year filter
    progress_count,     \* self._progress_count
    threads,            \* the download threads, in the order they were created
    joined,             \* how many threads start has joined
    dir_exists,         \* whether {output_folder}/{module_code}/papers exists
    mkdirs,             \* how many times os.makedirs was called
    files,              \* content of each file of that directory
    initial_fs,         \* the directory and its files when start was called
    result              \* what start returned

\* what the actions of start and of download_paper never assign
callerVars == <<gui, caller, module_code>>

vars == <<callerVars, exam_data, output_path,
          allowed_years, progress_callback, pc, login_page, soup, login_data,
          res, http, papers, filtered_papers, progress_count, threads, joined,
          dir_exists, mkdirs, files, initial_fs, result>>

startVars == <<exam_data, output_path, pc, login_page, soup, login_data, res,
               http,
               papers, filtered_papers,
               joined, mkdirs, initial_fs, result>>

\* module codes a caller may be given, and the folder it asks for
ModuleCodes == { <<"C", "S", "1", "0", "1">>, <<"c", "s", "1", "0", "1">>,
                 <<"M", "t", "2", "0", "1", "a">> }
output_folder == <<"o", "u", "t">>

\* the longest list of checked boxes, and of custom modules, at a click on
\* Start
MaxSelected == 2
MaxCustom == 1

\* the MainWindow before the first click on Start
GuiIdle ==
    [start_enabled |-> TRUE, selected |-> <<>>, modules_to_scrape |-> <<>>,
     current_scrape_index |-> 0, workers |-> <<>>, finished_calls |-> <<>>,
     dialog |-> <<>>]

\* mutant of StartArg: the module code is passed on as it was given
StartArg_AsGiven(code) == code

\* the module code start is called with: self.module_code.upper() in
\* ScraperWorker.run, module.get().upper() in main.py
StartArg(code) == Upper(code)

NoPage == <<>>
NoResponse == [status |-> 0, page |-> NoPage]

\* Scraper(allowed_years): the empty set or one year; sets of two and three
\* years go through the year filter in SpecFilter
AllowedYearSets == {{}, {Year2019}, {Year2021}}

\* the output directory before start: missing, empty, or holding a file
\* e2021.pdf of an earlier run
InitialFilesystems ==
    { [dir |-> FALSE, files |-> [f \in Filenames |-> Absent]],
      [dir |-> TRUE, files |-> [f \in Filenames |-> Absent]],
      [dir |-> TRUE, files |-> [f \in Filenames |->
                 IF f = LastSegment(HrefA2021) THEN OldContent ELSE Absent]] }

Init ==
    /\ gui = GuiIdle
    /\ res = NoResponse
    /\ caller = [module_code |-> <<"c", "s", "1", "0", "1">>]
    /\ module_code = StartArg(caller.module_code)
    /\ exam_data = <<>>
    /\ output_path = <<>>
    /\ allowed_years \in AllowedYearSets
    /\ progress_callback \in BOOLEAN
    /\ pc = "landing_get"
    /\ login_page = NoResponse
    /\ soup = NoPage
    /\ login_data = <<>>
    /\ http = [landing |-> 0, login |-> 0, listing |-> 0,
               login_status |-> 0, listing_status |-> 0]
    /\ papers = <<>>
    /\ filtered_papers = <<>>
    /\ progress_count = 0
    /\ threads = <<>>
    /\ joined = 0
    /\ \E fs \in InitialFilesystems :
          /\ dir_exists = fs.dir
          /\ files = fs.files
          /\ initial_fs = fs
    /\ mkdirs = 0
    /\ result = NoResult

\* ---------------------------------------------------------- Scraper.start
Return(r) ==
    /\ pc' = "returned"
    /\ result' = r

\* mutant of FindInput: takes the first input, whatever its name
FindInput_AnyInput(page, n) ==
    LET hits == {i \in 1..Len(page) : page[i].tag = "input"}
    IN IF hits = {} THEN <<>>
       ELSE <<page[CHOOSE i \in hits : \A j \in hits : i <= j]>>

\* soup.find("input", {"name": n}): the first such element, as a sequence of
\* length one, or <<>> for None
FindInput(page, n) ==
    LET hits == {i \in 1..Len(page) :
                    /\ page[i].tag = "input"
                    /\ "name" \in DOMAIN page[i].attrs
                    /\ page[i].attrs.name = n}
    IN IF hits = {} THEN <<>>
       ELSE <<page[CHOOSE i \in hits : \A j \in hits : i <= j]>>

\* mutant of GetLandingPage: a landing response other than 200 ends start
GetLandingPage_CheckStatus ==
    /\ pc = "landing_get"
    /\ \E st \in LandingStatuses, page \in LandingPages :
          /\ login_page' = [status |-> st, page |-> page]
          /\ soup' = page
          /\ IF st # 200
             THEN Return(ErrUnableToFetch)
             ELSE pc' = "login_check" /\ result' = result
    /\ http' = [http EXCEPT !.landing = @ + 1]
    /\ UNCHANGED <<callerVars, res, exam_data, output_path,
                   allowed_years, progress_callback, login_data, papers,
                   filtered_papers, progress_count, threads, joined,
                   dir_exists, mkdirs, files, initial_fs>>

\* login_page = self.session.get(self.url); soup = BeautifulSoup(...)
GetLandingPage ==
    /\ pc = "landing_get"
    /\ \E st \in LandingStatuses, page \in LandingPages :
          /\ login_page' = [status |-> st, page |-> page]
          /\ soup' = page
    /\ http' = [http EXCEPT !.landing = @ + 1]
    /\ pc' = "login_check"
    /\ UNCHANGED <<callerVars, res, exam_data, output_path,
                   allowed_years, progress_callback, login_data, papers,
                   filtered_papers, progress_count, threads, joined,
                   dir_exists, mkdirs, files, result, initial_fs>>

\* the login payload
LoginData(form_build_id) ==
    [name |-> "username", pass |-> "password", form_id |-> "user_login",
     form_build_id |-> form_build_id]

\* if soup.find("input", {"name": "form_build_id"}): ... else: ...
CheckLoginForm ==
    /\ pc = "login_check"
    /\ IF FindInput(soup, FormBuildIdName) # <<>>
       THEN /\ login_data' =
                 <<LoginData(FindInput(soup, FormBuildIdName)[1].attrs.value)>>
            /\ pc' = "login_post"
       ELSE /\ login_data' = login_data
            /\ pc' = "listing_get"
    /\ UNCHANGED <<callerVars, res, exam_data, output_path,
                   allowed_years, progress_callback, login_page, soup, http,
                   papers, filtered_papers, progress_count, threads, joined,
                   dir_exists, mkdirs, files, result, initial_fs>>

\* mutant of AfterLogin: the status of the login POST is not looked at
AfterLogin_IgnoreStatus(status) ==
    /\ pc' = "listing_get"
    /\ result' = result

\* mutant of AfterLogin: a response that shows the login form again counts
\* as a failed login
AfterLogin_FormMeansFailure(status) ==
    IF status # 200 \/ FindInput(res'.page, FormBuildIdName) # <<>>
    THEN Return(ErrInvalidCredentials)
    ELSE /\ pc' = "listing_get"
         /\ result' = result

\* what start does with the status of the login POST
AfterLogin(status) ==
    IF status # 200
    THEN Return(ErrInvalidCredentials)
    ELSE /\ pc' = "listing_get"
         /\ result' = result

\* res = self.session.post(self.url, data=login_data)
PostLogin ==
    /\ pc = "login_post"
    /\ \E st \in LoginStatuses, page \in LandingPages :
          /\ res' = [status |-> st, page |-> page]
          /\ http' = [http EXCEPT !.login = @ + 1, !.login_status = st]
          /\ AfterLogin(st)
    /\ UNCHANGED <<callerVars, exam_data, output_path,
                   allowed_years, progress_callback, login_page, soup,
                   login_data, papers, filtered_papers, progress_count,
                   threads, joined, dir_exists, mkdirs, files, initial_fs>>

\* mutant of ExtractPapers: ".pdf" may occur anywhere in the href
ExtractPapers_PdfAnywhere(page) ==
    LET IsPdfAnchor(el) ==
            /\ el.tag = "a"
            /\ "href" \in DOMAIN el.attrs
            /\ Contains(el.attrs.href, PdfSuffix)
        anchors == SelectSeq(page, IsPdfAnchor)
    IN [i \in 1..Len(anchors) |-> anchors[i].attrs.href]

\* soup.find_all("a", href=True), then the hrefs that end in ".pdf"
ExtractPapers(page) ==
    LET IsPdfAnchor(el) ==
            /\ el.tag = "a"
            /\ "href" \in DOMAIN el.attrs
            /\ EndsWith(el.attrs.href, PdfSuffix)
        anchors == SelectSeq(page, IsPdfAnchor)
    IN [i \in 1..Len(anchors) |-> anchors[i].attrs.href]

\* mutant of KeptByYear: no break, the link is appended once per year found
KeptByYear_OncePerYear(paper, years) ==
    [i \in 1..Cardinality({year \in years :
                             Contains(LastSegment(paper), year)}) |-> paper]

\* mutant of KeptByYear: every link is kept
KeptByYear_KeepAll(paper, years) == <<paper>>

\* mutant of KeptByYear: the year is looked for in the whole href
KeptByYear_WholeHref(paper, years) ==
    IF \E year \in years : Contains(paper, year)
    THEN <<paper>>
    ELSE <<>>

\* for year in allowed_years: if year in filename: append; break
KeptByYear(paper, years) ==
    IF \E year \in years : Contains(LastSegment(paper), year)
    THEN <<paper>>
    ELSE <<>>

\* for paper in papers: ...
RECURSIVE YearFilter(_, _)
YearFilter(ps, years) ==
    IF ps = <<>> THEN <<>>
    ELSE KeptByYear(Head(ps), years) \o YearFilter(Tail(ps), years)

\* the order of str on digit strings
Digits == <<"0", "1", "2", "3", "4", "5", "6", "7", "8", "9">>
Ord(c) == CHOOSE i \in 1..Len(Digits) : Digits[i] = c
RECURSIVE StrLess(_, _)
StrLess(a, b) ==
    IF b = <<>> THEN FALSE
    ELSE IF a = <<>> THEN TRUE
    ELSE IF Head(a) # Head(b) THEN Ord(Head(a)) < Ord(Head(b))
    ELSE StrLess(Tail(a), Tail(b))
MinStr(S) == CHOOSE x \in S : \A y \in S : x = y \/ StrLess(x, y)
MaxStr(S) == CHOOSE x \in S : \A y \in S : x = y \/ StrLess(y, x)

\* mutant of AfterListing: the status of the listing GET is not looked at
AfterListing_IgnoreStatus(status, page) ==
    /\ pc' = "extract"
    /\ soup' = page
    /\ result' = result

\* mutant of AfterListing: a failed listing GET sends start back to the
\* landing page
AfterListing_StartOver(status, page) ==
    IF status # 200
    THEN /\ pc' = "landing_get"
         /\ soup' = soup
         /\ result' = result
    ELSE /\ pc' = "extract"
         /\ soup' = page
         /\ result' = result

\* what start does with the status of the listing GET
AfterListing(status, page) ==
    IF status # 200
    THEN /\ Return(ErrUnableToFetch)
         /\ soup' = soup
    ELSE /\ pc' = "extract"
         /\ soup' = page
         /\ result' = result

\* exam_data = {"code_value_1": module_code}
\* res = self.session.get(self.url, params=exam_data): res is bound anew;
\* the landing response, the login response and the login payload are not
\* read again and leave the state here
GetListing ==
    /\ pc = "listing_get"
    /\ \E st \in ListingStatuses, page \in ListingPages :
          /\ http' = [http EXCEPT !.listing = @ + 1, !.listing_status = st]
          /\ AfterListing(st, page)
    /\ exam_data' = <<[code_value_1 |-> module_code]>>
    /\ login_page' = NoResponse
    /\ login_data' = <<>>
    /\ res' = NoResponse
    /\ UNCHANGED <<callerVars, output_path,
                   allowed_years, progress_callback, papers, filtered_papers,
                   progress_count, threads, joined, dir_exists, mkdirs, files,
                   initial_fs>>

\* mutant of AfterExtract: start goes on with an empty list of papers
AfterExtract_NoEmptyCheck(found) ==
    /\ pc' = "mkdir"
    /\ result' = result

\* mutant of AfterExtract: the year filter runs before the directory is made
AfterExtract_FilterFirst(found) ==
    IF found = <<>>
    THEN Return(MsgNoPapersFound)
    ELSE /\ pc' = "filter"
         /\ result' = result

\* if not papers: return "No papers found for this module"
AfterExtract(found) ==
    IF found = <<>>
    THEN Return(MsgNoPapersFound)
    ELSE /\ pc' = "mkdir"
         /\ result' = result

\* papers = [href of every <a href> whose href ends in .pdf]
ExtractLinks ==
    /\ pc = "extract"
    /\ papers' = ExtractPapers(soup)
    /\ AfterExtract(papers')
    /\ UNCHANGED <<callerVars, res, exam_data, output_path,
                   allowed_years, progress_callback, login_page, soup,
                   login_data,
                   http, filtered_papers, progress_count, threads, joined,
                   dir_exists, mkdirs, files, initial_fs>>

\* mutant of MakeOutputDir: makedirs is called whether or not the path exists
MakeOutputDir_Unconditional ==
    /\ pc = "mkdir"
    /\ output_path' = OutputPath(output_folder, module_code)
    /\ dir_exists' = TRUE
    /\ mkdirs' = mkdirs + 1
    /\ pc' = "filter"
    /\ UNCHANGED <<callerVars, res, exam_data,
                   allowed_years, progress_callback, login_page, soup,
                   login_data, http, papers, filtered_papers, progress_count,
                   threads, joined, files, result, initial_fs>>

\* output_path = f"..."
\* if not os.path.exists(output_path): os.makedirs(output_path)
MakeOutputDir ==
    /\ pc = "mkdir"
    /\ output_path' = OutputPath(output_folder, module_code)
    /\ IF ~dir_exists
       THEN /\ dir_exists' = TRUE
            /\ mkdirs' = mkdirs + 1
       ELSE UNCHANGED <<dir_exists, mkdirs>>
    /\ pc' = "filter"
    /\ UNCHANGED <<callerVars, res, exam_data,
                   allowed_years, progress_callback, login_page, soup,
                   login_data, http, papers, filtered_papers, progress_count,
                   threads, joined, files, result, initial_fs>>

\* if not filtered_papers: return f"... in years {min(...)}-{max(...)}"
AfterFilter(kept) ==
    IF kept = <<>>
    THEN /\ Return(IF allowed_years = {} THEN RaisedValueError
                   ELSE MsgNoPapersInYears(MinStr(allowed_years),
                                           MaxStr(allowed_years)))
         /\ progress_count' = progress_count
    ELSE /\ pc' = "spawn"
         /\ progress_count' = 0
         /\ result' = result

\* filtered_papers = [...]; self._progress_count = 0; total = len(...)
FilterPapers ==
    /\ pc = "filter"
    /\ filtered_papers' = YearFilter(papers, allowed_years)
    /\ AfterFilter(filtered_papers')
    /\ UNCHANGED <<callerVars, res, exam_data, output_path,
                   allowed_years, progress_callback, login_page, soup,
                   login_data, http, papers, threads, joined, dir_exists,
                   mkdirs, files, initial_fs>>

total == Len(filtered_papers)

\* a thread that start has created and started, at the top of download_paper
NewThread(url) ==
    [pc |-> "get", url |-> url, status |-> 0, wrote |-> FALSE, tmp |-> 0,
     gets |-> 0, calls |-> 0, arg |-> 0, of |-> 0]

\* mutant of Terminated: join returns without waiting for the thread
Terminated_NotWaited(th) == TRUE

\* the thread has ended: download_paper returned or raised
Terminated(th) == th.pc \in {"done", "raised"}

\* for i, paper in enumerate(filtered_papers): Thread(...).start()
SpawnThread ==
    /\ pc = "spawn"
    /\ Len(threads) < total
    /\ threads' = Append(threads, NewThread(filtered_papers[Len(threads) + 1]))
    /\ pc' = IF Len(threads') = total THEN "join" ELSE "spawn"
    /\ UNCHANGED <<callerVars, res, exam_data, output_path,
                   allowed_years, progress_callback, login_page, soup,
                   login_data, http, papers, filtered_papers, progress_count,
                   joined, dir_exists, mkdirs, files, result, initial_fs>>

\* mutant of AfterJoin: a download answered non-200 makes start fail
AfterJoin_FailOnBadStatus ==
    Return(IF \E t \in 1..Len(threads) : threads[t].status # 200
           THEN ErrUnableToFetch
           ELSE RetTrue)

\* mutant of AfterJoin: a task that ended in an exception fails the call
AfterJoin_FailOnRaised ==
    Return(IF \E t \in 1..Len(threads) : threads[t].pc = "raised"
           THEN ErrUnableToFetch
           ELSE RetTrue)

\* return True
AfterJoin == Return(RetTrue)

\* for i, thread in enumerate(threads): thread.join(); then return True
JoinThread ==
    /\ pc = "join"
    /\ joined < Len(threads)
    /\ Terminated(threads[joined + 1])
    /\ joined' = joined + 1
    /\ IF joined' = Len(threads)
       THEN AfterJoin
       ELSE UNCHANGED <<pc, result>>
    /\ UNCHANGED <<callerVars, res, exam_data, output_path,
                   allowed_years, progress_callback, login_page, soup,
                   login_data, http, papers, filtered_papers, progress_count,
                   threads, dir_exists, mkdirs, files, initial_fs>>

\* ------------------------------------------------- Scraper.download_paper
Filename(th) == LastSegment(th.url)
\* file_path of the thread: module_code and output_folder are handed to it
\* as start has them
ThreadFilePath(th) == FilePath(output_folder, module_code, Filename(th))

\* mutant of AfterGet: the body of a failed download is written all the same
AfterGet_WriteOnFailure(status) == IF status = 200 THEN "isfile" ELSE "open"

\* mutant of AfterGet: a failed download does not report progress
AfterGet_NoUpdateOnFailure(status) ==
    IF status = 200 THEN "isfile" ELSE "done"

\* mutant of AfterGet: a failed download is requested again
AfterGet_RetryOnFailure(status) ==
    IF status = 200 THEN "isfile" ELSE "get"

\* where download_paper goes once the GET has answered with a status
AfterGet(status) == IF status = 200 THEN "isfile" ELSE "update"

\* response = self.session.get(url), which answers or raises
GetPaper(t) ==
    /\ threads[t].pc = "get"
    /\ \/ \E st \in PdfStatuses :
             threads' = [threads EXCEPT ![t].pc = AfterGet(st),
                                        ![t].status = st,
                                        ![t].gets = @ + 1]
       \/ threads' = [threads EXCEPT ![t].pc = "raised", ![t].gets = @ + 1]
    /\ UNCHANGED <<callerVars, allowed_years, progress_callback, startVars,
                   progress_count, dir_exists, files>>

\* mutant of AfterIsFile: the file is written whether or not it is there
AfterIsFile_AlwaysWrite(exists) == "open"

\* where download_paper goes after os.path.isfile(file_path)
AfterIsFile(exists) == IF exists THEN "update" ELSE "open"

\* if os.path.isfile(file_path): ... return
CheckFile(t) ==
    /\ threads[t].pc = "isfile"
    /\ threads' = [threads EXCEPT
                     ![t].pc = AfterIsFile(files[Filename(threads[t])] # Absent)]
    /\ UNCHANGED <<callerVars, allowed_years, progress_callback, startVars,
                   progress_count, dir_exists, files>>

\* with open(file_path, "wb") as f: creates the file, or truncates it; or
\* open raises OSError, which nothing in download_paper catches
OpenFile(t) ==
    /\ threads[t].pc = "open"
    /\ \/ /\ files' = [files EXCEPT ![Filename(threads[t])] = Empty]
          /\ threads' = [threads EXCEPT ![t].pc = "write", ![t].wrote = TRUE]
       \/ /\ files' = files
          /\ threads' = [threads EXCEPT ![t].pc = "raised"]
    /\ UNCHANGED <<callerVars, allowed_years, progress_callback, startVars,
                   progress_count, dir_exists>>

\* f.write(response.content), and the close that ends the with block; or
\* the write raises and the with block closes the file as it is
WriteFile(t) ==
    /\ threads[t].pc = "write"
    /\ \/ /\ files' = [files EXCEPT
                          ![Filename(threads[t])] = Body(threads[t].url)]
          /\ threads' = [threads EXCEPT ![t].pc = "update"]
       \/ /\ files' = files
          /\ threads' = [threads EXCEPT ![t].pc = "raised"]
    /\ UNCHANGED <<callerVars, allowed_years, progress_callback, startVars,
                   progress_count, dir_exists>>

\* progress_update: self._progress_count += 1 reads the attribute ...
LoadCount(t) ==
    /\ threads[t].pc = "update"
    /\ threads' = [threads EXCEPT ![t].pc = "store", ![t].tmp = progress_count]
    /\ UNCHANGED <<callerVars, allowed_years, progress_callback, startVars,
                   progress_count, dir_exists, files>>

\* ... and stores the sum, with no lock held in between
StoreCount(t) ==
    /\ threads[t].pc = "store"
    /\ progress_count' = threads[t].tmp + 1
    /\ threads' = [threads EXCEPT ![t].pc = "callback", ![t].tmp = 0]
    /\ UNCHANGED <<callerVars, allowed_years, progress_callback, startVars,
                   dir_exists, files>>

\* if hasattr(self, "progress_callback") and callable(...):
\*     self.progress_callback(self._progress_count, total)
CallBack(t) ==
    /\ threads[t].pc = "callback"
    /\ threads' = IF progress_callback
                  THEN [threads EXCEPT ![t].pc = "done",
                                       ![t].calls = @ + 1,
                                       ![t].arg = progress_count,
                                       ![t].of = total]
                  ELSE [threads EXCEPT ![t].pc = "done"]
    /\ UNCHANGED <<callerVars, allowed_years, progress_callback, startVars,
                   progress_count, dir_exists, files>>

Start ==
    \/ GetLandingPage
    \/ CheckLoginForm
    \/ PostLogin
    \/ GetListing
    \/ ExtractLinks
    \/ MakeOutputDir
    \/ FilterPapers
    \/ SpawnThread
    \/ JoinThread

Next ==
    \/ Start
    \/ \E t \in 1..Len(threads) : GetPaper(t)
    \/ \E t \in 1..Len(threads) : CheckFile(t)
    \/ \E t \in 1..Len(threads) : OpenFile(t)
    \/ \E t \in 1..Len(threads) : WriteFile(t)
    \/ \E t \in 1..Len(threads) : LoadCount(t)
    \/ \E t \in 1..Len(threads) : StoreCount(t)
    \/ \E t \in 1..Len(threads) : CallBack(t)

Spec == Init /\ [][Next]_vars

\* the steps of the thread that start created as number t
DownloadPaper(t) ==
    /\ t \in 1..Len(threads)
    /\ \/ GetPaper(t) \/ CheckFile(t) \/ OpenFile(t) \/ WriteFile(t)
       \/ LoadCount(t) \/ StoreCount(t) \/ CallBack(t)

\* the main thread and every started thread keep being scheduled, and a
\* request that was issued ends (with a response or an exception)
SpecFair ==
    /\ Spec
    /\ WF_vars(Start)
    /\ \A t \in 1..MaxListing : WF_vars(DownloadPaper(t))

\* download_paper invoked in sequence: an invocation begins only after the
\* ones created before it have ended
Turn(t) == \A u \in 1..(t - 1) : Terminated(threads[u])

NextSeq ==
    \/ Start
    \/ \E t \in 1..Len(threads) : Turn(t) /\ GetPaper(t)
    \/ \E t \in 1..Len(threads) : Turn(t) /\ CheckFile(t)
    \/ \E t \in 1..Len(threads) : Turn(t) /\ OpenFile(t)
    \/ \E t \in 1..Len(threads) : Turn(t) /\ WriteFile(t)
    \/ \E t \in 1..Len(threads) : Turn(t) /\ LoadCount(t)
    \/ \E t \in 1..Len(threads) : Turn(t) /\ StoreCount(t)
    \/ \E t \in 1..Len(threads) : Turn(t) /\ CallBack(t)

SpecSeq == Init /\ [][NextSeq]_vars

\* start from the parsed listing page on (line 85), for listing pages of the
\* wider catalogue: the scan for .pdf links, the output directory and the
\* year filter
InitFilter ==
    /\ gui = GuiIdle
    /\ res = NoResponse
    /\ caller = [module_code |-> <<"c", "s", "1", "0", "1">>]
    /\ module_code = StartArg(caller.module_code)
    /\ exam_data = <<[code_value_1 |-> module_code]>>
    /\ output_path = <<>>
    /\ allowed_years \in SUBSET CatalogueYears
    /\ progress_callback = TRUE
    /\ pc = "extract"
    /\ login_page = NoResponse
    /\ soup \in CataloguePages
    /\ login_data = <<>>
    /\ http = [landing |-> 1, login |-> 0, listing |-> 1,
               login_status |-> 0, listing_status |-> 200]
    /\ papers = <<>>
    /\ filtered_papers = <<>>
    /\ progress_count = 0
    /\ threads = <<>>
    /\ joined = 0
    /\ \E fs \in InitialFilesystems :
          /\ dir_exists = fs.dir
          /\ files = fs.files
          /\ initial_fs = fs
    /\ mkdirs = 0
    /\ result = NoResult

\* start called for each of the module codes a caller may be given
InitCaller ==
    /\ gui = GuiIdle
    /\ res = NoResponse
    /\ caller \in [module_code : ModuleCodes]
    /\ module_code = StartArg(caller.module_code)
    /\ exam_data = <<>>
    /\ output_path = <<>>
    /\ allowed_years = {Year2021}
    /\ progress_callback = TRUE
    /\ pc = "landing_get"
    /\ login_page = NoResponse
    /\ soup = NoPage
    /\ login_data = <<>>
    /\ http = [landing |-> 0, login |-> 0, listing |-> 0,
               login_status |-> 0, listing_status |-> 0]
    /\ papers = <<>>
    /\ filtered_papers = <<>>
    /\ progress_count = 0
    /\ threads = <<>>
    /\ joined = 0
    /\ dir_exists = FALSE
    /\ files = [f \in Filenames |-> Absent]
    /\ initial_fs = [dir |-> FALSE, files |-> [f \in Filenames |-> Absent]]
    /\ mkdirs = 0
    /\ result = NoResult

SpecCaller == InitCaller /\ [][Next]_vars

\* ------------------------------------------- MainWindow: the scrape queue
scraperVars ==
    <<caller, module_code, exam_data, output_path, allowed_years,
      progress_callback, pc, login_page, soup, login_data, res, http, papers,
      filtered_papers, progress_count, threads, joined, dir_exists, mkdirs,
      files, initial_fs, result>>

\* lists of checkbox texts, and of custom modules: no text twice in a list
\* (add_custom_module refuses a code it already has)
DupFreeSeqs(S, n) ==
    {q \in SeqsUpTo(S, n) : \A i, j \in 1..Len(q) : i # j => q[i] # q[j]}

\* mutant of Dedupe: the list is taken as it is
Dedupe_KeepAll(q) == q

\* list(dict.fromkeys(q)): the first occurrence of each entry, in order
RECURSIVE Dedupe(_)
Dedupe(q) ==
    IF q = <<>> THEN <<>>
    ELSE LET front == Dedupe(SubSeq(q, 1, Len(q) - 1))
             last == q[Len(q)]
         IN IF \E i \in 1..Len(front) : front[i] = last
            THEN front
            ELSE Append(front, last)

\* what Scraper.start may hand back to ScraperWorker.run
StartResults ==
    {RetTrue, ErrInvalidCredentials, ErrUnableToFetch, MsgNoPapersFound}

MsgSuccess == <<"Success">>
MsgAllScraped == <<"All", "modules", "scraped.">>
MsgSelectModule ==
    <<"Please", "select", "at", "least", "one", "module", "to", "download.">>
MsgPasswordEmpty == <<"Password", "cannot", "be", "empty">>
MsgFolderEmpty == <<"Output", "folder", "cannot", "be", "empty">>

\* self.worker = ScraperWorker(..., module_code, ...); self.worker.start()
NewWorker(module) ==
    [module |-> module, state |-> "running", success |-> FALSE,
     message |-> <<>>]

\* mutant of OnScraperFinished: the Start button comes back only on success
OnScraperFinished_EnableOnSuccess(g, success, message) ==
    [g EXCEPT !.start_enabled = success,
              !.finished_calls = Append(@, [success |-> success,
                                            message |-> message]),
              !.dialog = message]

\* on_scraper_finished(success, message) applied to the window g
OnScraperFinished(g, success, message) ==
    [g EXCEPT !.start_enabled = TRUE,
              !.finished_calls = Append(@, [success |-> success,
                                            message |-> message]),
              !.dialog = message]

\* _scrape_next_module applied to the window g
ScrapeNextModule(g) ==
    IF g.current_scrape_index >= Len(g.modules_to_scrape)
    THEN OnScraperFinished(g, TRUE, MsgAllScraped)
    ELSE [g EXCEPT !.workers =
            Append(@, NewWorker(g.modules_to_scrape[g.current_scrape_index + 1]))]

\* a click on Start: start_scraper
StartScraper ==
    /\ gui.start_enabled
    /\ \E checked \in DupFreeSeqs(ModuleCodes, MaxSelected),
          custom_modules \in DupFreeSeqs(ModuleCodes, MaxCustom),
          password \in BOOLEAN, folder \in BOOLEAN :
          LET selected_modules == Dedupe(checked \o custom_modules)
          IN IF selected_modules = <<>>
             THEN gui' = [gui EXCEPT !.dialog = MsgSelectModule]
             ELSE IF ~password
             THEN gui' = [gui EXCEPT !.dialog = MsgPasswordEmpty]
             ELSE IF ~folder
             THEN gui' = [gui EXCEPT !.dialog = MsgFolderEmpty]
             ELSE gui' = ScrapeNextModule(
                           [gui EXCEPT !.start_enabled = FALSE,
                                       !.selected = checked \o custom_modules,
                                       !.modules_to_scrape = selected_modules,
                                       !.current_scrape_index = 0,
                                       !.workers = <<>>,
                                       !.finished_calls = <<>>,
                                       !.dialog = <<>>])
    /\ UNCHANGED scraperVars

\* ScraperWorker.run: start has returned, and finished is emitted
WorkerFinish ==
    /\ \E w \in 1..Len(gui.workers), r \in StartResults :
          /\ gui.workers[w].state = "running"
          /\ gui' = [gui EXCEPT
                       !.workers[w].state = "emitted",
                       !.workers[w].success = (r = RetTrue),
                       !.workers[w].message =
                           IF r = RetTrue THEN MsgSuccess ELSE r.msg]
    /\ UNCHANGED scraperVars

\* ScraperWorker.run: start raises (a request that fails with an exception),
\* so run ends without emitting finished
WorkerRaise ==
    /\ \E w \in 1..Len(gui.workers) :
          /\ gui.workers[w].state = "running"
          /\ gui' = [gui EXCEPT !.workers[w].state = "raised"]
    /\ UNCHANGED scraperVars

\* mutant of OnModuleScrapeFinished: a failed module is skipped and the
\* queue goes on
OnModuleScrapeFinished_SkipFailed ==
    /\ \E w \in 1..Len(gui.workers) :
          /\ gui.workers[w].state = "emitted"
          /\ gui' = ScrapeNextModule(
                       [gui EXCEPT !.workers[w].state = "handled",
                                   !.current_scrape_index = @ + 1])
    /\ UNCHANGED scraperVars

\* the main thread delivers finished: _on_module_scrape_finished
OnModuleScrapeFinished ==
    /\ \E w \in 1..Len(gui.workers) :
          /\ gui.workers[w].state = "emitted"
          /\ LET g == [gui EXCEPT !.workers[w].state = "handled"]
             IN gui' =
                  IF ~gui.workers[w].success
                  THEN OnScraperFinished(g, FALSE, gui.workers[w].message)
                  ELSE ScrapeNextModule(
                         [g EXCEPT !.current_scrape_index = @ + 1])
    /\ UNCHANGED scraperVars

NextQueue ==
    \/ StartScraper
    \/ WorkerFinish
    \/ WorkerRaise
    \/ OnModuleScrapeFinished

\* the window as it opens; no start call of the model's own is in progress
InitQueue ==
    /\ InitCaller
    /\ caller.module_code = <<"C", "S", "1", "0", "1">>

SpecQueue == InitQueue /\ [][NextQueue]_vars

\* the queue with every worker thread scheduled until run has ended, and the
\* event loop of the main thread delivering every finished signal
SpecQueueFair ==
    /\ InitQueue
    /\ [][NextQueue]_vars
    /\ WF_vars(WorkerFinish \/ WorkerRaise)
    /\ WF_vars(OnModuleScrapeFinished)

NextFilter ==
    \/ ExtractLinks
    \/ MakeOutputDir
    \/ FilterPapers

SpecFilter == InitFilter /\ [][NextFilter]_vars

\* ------------------------------------------------------------ properties
Tasks == 1..Len(threads)

RECURSIVE SumCalls(_)
SumCalls(ths) == IF ths = <<>> THEN 0 ELSE Head(ths).calls + SumCalls(Tail(ths))
\* invocations of self.progress_callback so far
CallbackCalls == SumCalls(threads)

\* start has returned from a call that got as far as the download stage
ReturnedFromDownloads == pc = "returned" /\ filtered_papers # <<>>

\* no download task has ended in an exception
NoTaskRaised == \A t \in Tasks : threads[t].pc # "raised"

\* tasks that opened the file named f for writing
Writers(f) == {t \in Tasks : threads[t].wrote /\ Filename(threads[t]) = f}

\* C1: a start call that reaches the download stage with N year-filtered
\* links spawns exactly N download tasks, one per link in order, and by the
\* time it returns the progress callback has been invoked exactly N times,
\* once by each task, whatever mix of 200-and-written, 200-and-already-there
\* and non-200 the tasks met.
C1_ProgressOncePerLink ==
    /\ Len(threads) <= Len(filtered_papers)
    /\ \A t \in Tasks : threads[t].url = filtered_papers[t]
    /\ ReturnedFromDownloads =>
          /\ Len(threads) = Len(filtered_papers)
          /\ (progress_callback /\ NoTaskRaised) =>
                /\ CallbackCalls = Len(filtered_papers)
                /\ \A t \in Tasks : threads[t].calls = 1

\* start has returned after two tasks, one answered 404 and one that wrote
\* its file, and the callback ran twice
C1_Witness ==
    /\ ReturnedFromDownloads
    /\ progress_callback
    /\ Len(threads) = 2
    /\ threads[1].status = 404
    /\ threads[2].status = 200 /\ threads[2].wrote
    /\ CallbackCalls = 2

\* C2: increments of the shared counter are serialized: no increment is
\* lost, so once every task has finished _progress_count equals N and some
\* callback invocation was made with current_count = total_count = N.
C2_NoLostIncrement ==
    (ReturnedFromDownloads /\ NoTaskRaised) =>
        /\ progress_count = total
        /\ progress_callback =>
              \E t \in Tasks : threads[t].arg = total /\ threads[t].of = total

\* C3: during a start call no target file is overwritten or written more
\* than once: a file changes only by being created, or by its single writer
\* completing the write it began; two links with the same filename included.
C3_NeverOverwritten ==
    [][\A f \in Filenames :
          files'[f] # files[f] =>
              \/ files[f] = Absent
              \/ files[f] = Empty /\ Cardinality(Writers(f)) = 1]_vars

\* the invocation of task t has ended after a GET answered 200, for a file
\* that was there before start was called
SkippedExisting(t) ==
    /\ threads[t].pc = "done"
    /\ threads[t].status = 200
    /\ initial_fs.files[Filename(threads[t])] # Absent

\* C4: download_paper invoked twice in sequence for the same URL and target
\* path, the file existing before the first invocation and both GETs
\* answered 200: the file content is unchanged after the first and after
\* the second invocation, and each invocation invokes the progress
\* callback exactly once.
C4_Idempotent ==
    \A t \in Tasks :
        SkippedExisting(t) =>
            /\ files[Filename(threads[t])]
                  = initial_fs.files[Filename(threads[t])]
            /\ ~threads[t].wrote
            /\ progress_callback => threads[t].calls = 1

\* two invocations for the same url have both ended, the file was there
\* before the first
C4_Witness ==
    /\ Len(threads) = 2
    /\ threads[1].url = threads[2].url
    /\ SkippedExisting(1)
    /\ SkippedExisting(2)
    /\ progress_callback
    /\ files[Filename(threads[1])] = OldContent

\* C5: start returns True whenever it got as far as having a year-filtered
\* link (login, if attempted, and listing answered 200), however many PDF
\* GETs are answered non-200; no status of a download becomes an error
\* return value, and nothing is returned before the downloads are over.
C5_DownloadFailuresSwallowed ==
    filtered_papers # <<>> =>
        IF pc = "returned" THEN result = RetTrue ELSE result = NoResult

\* start has returned True although every PDF GET was answered 404
C5_Witness ==
    /\ pc = "returned"
    /\ result = RetTrue
    /\ Len(threads) = 2
    /\ \A t \in Tasks : threads[t].status = 404

\* C6: when the login POST is answered with a status other than 200, start
\* returns a string containing "Invalid credentials", and in that call no
\* listing GET is issued, no output directory is created and no download
\* task is spawned.
C6_InvalidCredentials ==
    http.login_status \notin {0, 200} =>
        /\ pc = "returned"
        /\ result.type = "str"
        /\ Contains(result.msg, <<"Invalid", "credentials">>)
        /\ http.listing = 0
        /\ mkdirs = 0
        /\ dir_exists = initial_fs.dir
        /\ threads = <<>>

\* the login POST was answered 403 and start has returned
C6_Witness ==
    /\ http.login_status = 403
    /\ pc = "returned"
    /\ ~dir_exists

\* the page has an input named form_build_id
HasFormBuildId(page) ==
    \E i \in 1..Len(page) :
        /\ page[i].tag = "input"
        /\ "name" \in DOMAIN page[i].attrs
        /\ page[i].attrs.name = FormBuildIdName

C8_NoRetries ==
    /\ http.landing = (IF pc = "landing_get" THEN 0 ELSE 1)
    /\ http.login <= 1
    /\ http.listing <= 1
    /\ \A t \in Tasks :
          threads[t].gets = (IF threads[t].pc = "get" THEN 0 ELSE 1)
    /\ ReturnedFromDownloads =>
          /\ Len(threads) = Len(filtered_papers)
          /\ \A t \in Tasks : threads[t].url = filtered_papers[t]

\* start has returned after a login and two downloads, one answered 404 and
\* one that raised
C8_Witness ==
    /\ pc = "returned"
    /\ http.login = 1
    /\ Len(threads) = 2
    /\ threads[1].status = 404
    /\ threads[2].pc = "raised"

\* the page has no anchor whose href ends in ".pdf"
NoPdfAnchor(page) ==
    ~\E i \in 1..Len(page) :
        /\ page[i].tag = "a"
        /\ "href" \in DOMAIN page[i].attrs
        /\ EndsWith(page[i].attrs.href, PdfSuffix)

\* the listing GET was answered 200 and start has gone through the page
ListingScanned ==
    /\ http.listing_status = 200
    /\ pc \notin {"listing_get", "extract"}

\* C9: for a listing page, fetched with status 200, that has no anchor
\* whose href ends in ".pdf", start returns "No papers found for this
\* module", creates no output directory and spawns no download task.
C9_NoPapersFound ==
    (ListingScanned /\ NoPdfAnchor(soup)) =>
        /\ pc = "returned"
        /\ result = MsgNoPapersFound
        /\ mkdirs = 0
        /\ dir_exists = initial_fs.dir
        /\ threads = <<>>

\* start has returned from a listing that has anchors, none of them a PDF
C9_Witness ==
    /\ ListingScanned
    /\ Len(soup) = 2
    /\ soup[1] = Anchor(HrefHtml)
    /\ NoPdfAnchor(soup)
    /\ pc = "returned"
    /\ ~dir_exists

\* C10: when the listing GET is answered with a status other than 200,
\* start returns "Error: Unable to fetch exam papers" at once: no link is
\* extracted, no directory is created, no download task is spawned.
C10_UnableToFetch ==
    http.listing_status \notin {0, 200} =>
        /\ pc = "returned"
        /\ result = ErrUnableToFetch
        /\ papers = <<>>
        /\ filtered_papers = <<>>
        /\ mkdirs = 0
        /\ dir_exists = initial_fs.dir
        /\ threads = <<>>

\* the listing GET was answered 500 after a login, and start has returned
C10_Witness ==
    /\ http.listing_status = 500
    /\ http.login_status = 200
    /\ pc = "returned"
    /\ ~dir_exists

\* the year filter has run over the links found
Filtered == papers # <<>> /\ pc \in {"spawn", "join", "returned"}

\* year occurs in href at position k, and nothing from k on is a '/': the
\* occurrence lies in what follows the last '/'
YearAt(href, year, k) ==
    /\ k + Len(year) - 1 <= Len(href)
    /\ \A j \in 1..Len(year) : href[k + j - 1] = year[j]
    /\ \A j \in k..Len(href) : href[j] # "/"
YearInFilename(href, years) ==
    \E year \in years, k \in 1..Len(href) : YearAt(href, year, k)

InSeq(x, seq) == \E i \in 1..Len(seq) : seq[i] = x

\* C11: the year filter keeps a PDF link exactly when some allowed year is a
\* raw substring of its filename, the part of the href after the last '/'.
\* No digit boundary is looked at, so a year inside a longer digit run
\* counts, and a year that occurs only in an earlier path segment does not.
C11_YearFilter ==
    Filtered =>
       /\ \A i \in 1..Len(papers) :
             InSeq(papers[i], filtered_papers)
                <=> YearInFilename(papers[i], allowed_years)
       /\ \A i \in 1..Len(filtered_papers) : InSeq(filtered_papers[i], papers)
       /\ (Year2021 \in allowed_years /\ InSeq(HrefDigitRun, papers))
             => InSeq(HrefDigitRun, filtered_papers)
       /\ InSeq(HrefYearInDir, filtered_papers) = FALSE

\* allowed years 2021 and 2022 and the links exam_2021_may.pdf,
\* exam_2019_may.pdf: only the first is kept
C11_Witness ==
    /\ Filtered
    /\ allowed_years = {Year2021, Year2022}
    /\ papers = <<HrefExam2021, HrefExam2019>>
    /\ filtered_papers = <<HrefExam2021>>

\* the hrefs of the listing page that are PDF links and pass the year filter
IsPdfLink(el) ==
    /\ el.tag = "a"
    /\ "href" \in DOMAIN el.attrs
    /\ Len(el.attrs.href) >= 4
    /\ \A j \in 1..4 : el.attrs.href[Len(el.attrs.href) - 4 + j] = PdfSuffix[j]
PassingLinks ==
    {soup[i].attrs.href : i \in {j \in 1..Len(soup) :
         IsPdfLink(soup[j]) /\ YearInFilename(soup[j].attrs.href, allowed_years)}}

\* start has returned from a call in which the login form was shown, the
\* login POST, the listing GET and every PDF GET were answered 200, no file
\* was in the output directory beforehand and no write to it failed
AllWentWell ==
    /\ pc = "returned"
    /\ http.login = 1 /\ http.login_status = 200
    /\ http.listing = 1 /\ http.listing_status = 200
    /\ \A t \in Tasks : threads[t].status = 200
    /\ NoTaskRaised
    /\ \A f \in Filenames : initial_fs.files[f] = Absent

\* the files of the output directory are those of the passing links, each
\* written by a task at output_path/filename with a body served for it
ExactlyThePassingFiles ==
    /\ {f \in Filenames : files[f] # Absent}
          = {LastSegment(h) : h \in PassingLinks}
    /\ \A f \in Filenames : files[f] # Absent =>
          /\ Writers(f) # {}
          /\ \E h \in PassingLinks : LastSegment(h) = f /\ files[f] = Body(h)
    /\ \A t \in Tasks :
          ThreadFilePath(threads[t])
             = output_folder \o <<"/">> \o module_code \o <<"/">> \o Papers
                  \o <<"/">> \o Filename(threads[t])

C13_ReturnsAfterAllTasks ==
    pc = "returned" =>
       /\ \A t \in Tasks : threads[t].pc \in {"done", "raised"}
       /\ result = RetTrue => Len(threads) = Len(filtered_papers)

\* start has returned True after two tasks, one of which wrote its file and
\* called back
C13_Witness ==
    /\ pc = "returned" /\ result = RetTrue
    /\ Len(threads) = 2
    /\ \E t \in Tasks : /\ threads[t].wrote
                        /\ threads[t].gets = 1
                        /\ threads[t].calls = 1

\* C14: the output directory exists before the first download task is
\* started; os.makedirs is called at most once per start call, not at all
\* when the directory was already there, and only by start itself, on its
\* way past line 113: the number of calls never depends on what the tasks
\* have done.
C14_DirBeforeTasks ==
    /\ threads # <<>> =>
          /\ dir_exists
          /\ output_path
                = output_folder \o <<"/">> \o module_code \o <<"/">> \o Papers
    /\ mkdirs <= 1
    /\ initial_fs.dir => mkdirs = 0
    /\ mkdirs = IF ~initial_fs.dir /\ output_path # <<>> THEN 1 ELSE 0

\* the directory was missing, start created it and a task has started
C14_Witness ==
    /\ ~initial_fs.dir
    /\ mkdirs = 1
    /\ dir_exists
    /\ threads # <<>>

\* the stage whose check made start give up, read off what start has done
FailingStage ==
    IF http.login_status \notin {0, 200} THEN "LOGIN_SUBMIT"
    ELSE IF http.listing_status \notin {0, 200} THEN "LISTING_FETCHED"
    ELSE IF papers = <<>> THEN "LINKS_EXTRACTED"
    ELSE IF filtered_papers = <<>> THEN "YEAR_FILTERED"
    ELSE "none"
FailingStages ==
    {"LOGIN_SUBMIT", "LISTING_FETCHED", "LINKS_EXTRACTED", "YEAR_FILTERED"}
ErrorOf(stage) ==
    CASE stage = "LOGIN_SUBMIT" -> ErrInvalidCredentials.msg
      [] stage = "LISTING_FETCHED" -> ErrUnableToFetch.msg
      [] stage = "LINKS_EXTRACTED" -> MsgNoPapersFound.msg
      [] stage = "YEAR_FILTERED" -> MsgNoPapersInYears(<<>>, <<>>).msg

\* each stage is entered at most once, and only after the stages before it
StagesInOrder ==
    /\ http.landing <= 1 /\ http.login <= 1 /\ http.listing <= 1
    /\ mkdirs <= 1
    /\ http.login = 1 => http.landing = 1
    /\ http.listing = 1 => (http.landing = 1 /\ http.login_status \in {0, 200})
    /\ papers # <<>> => (http.listing = 1 /\ http.listing_status = 200)
    /\ output_path # <<>> => papers # <<>>
    /\ filtered_papers # <<>> => output_path # <<>>
    /\ threads # <<>> =>
          (filtered_papers # <<>> /\ pc \in {"spawn", "join", "returned"})
    /\ joined > 0 => Len(threads) = Len(filtered_papers)
    /\ result = RetTrue => (joined = Len(threads) /\ joined > 0)

\* nothing of the stages after the failing one has happened
NoLaterStage(stage) ==
    /\ threads = <<>> /\ joined = 0 /\ progress_count = 0
    /\ files = initial_fs.files
    /\ filtered_papers = <<>>
    /\ stage \in {"LOGIN_SUBMIT", "LISTING_FETCHED", "LINKS_EXTRACTED"} =>
          (output_path = <<>> /\ mkdirs = 0 /\ papers = <<>>)
    /\ stage = "LOGIN_SUBMIT" => (http.listing = 0 /\ exam_data = <<>>)

\* C15: start is a linear state machine (landing page, login check,
\* optional login, listing, link scan, year filter, downloads, done): each
\* stage is entered at most once and only in this order; when the check of
\* a stage fails start ends there, with nothing of a later stage done; and
\* the strings returned for different failing stages are pairwise distinct,
\* each failing stage having its own.
C15_LinearStages ==
    /\ StagesInOrder
    /\ \A s1, s2 \in FailingStages : s1 # s2 => ErrorOf(s1) # ErrorOf(s2)
    /\ pc = "returned" =>
          IF FailingStage = "none"
          THEN result = RetTrue
          ELSE /\ result # RetTrue
               /\ result.type = "str" => result.msg = ErrorOf(FailingStage)
               /\ NoLaterStage(FailingStage)

\* the year filter kept nothing: start returned its message with the
\* directory made at the stage before left in place and no task started
C15_Witness ==
    /\ pc = "returned"
    /\ FailingStage = "YEAR_FILTERED"
    /\ result.type = "str"
    /\ mkdirs = 1 /\ dir_exists
    /\ threads = <<>>

\* C16: for every input and every allowed-years set, the empty one
\* included, start ends by returning True or a message string; when PDF
\* links exist and none passes the year filter, the message names the
\* smallest and the largest allowed year.
C16_ReturnsTrueOrMessage ==
    pc = "returned" =>
       /\ result.type \in {"bool", "str"}
       /\ (papers # <<>> /\ filtered_papers = <<>>) =>
             /\ result.type = "str"
             /\ result.lo \in allowed_years /\ result.hi \in allowed_years
             /\ \A y \in allowed_years :
                   /\ y = result.lo \/ StrLess(result.lo, y)
                   /\ y = result.hi \/ StrLess(y, result.hi)

\* u is s with each lowercase letter replaced by its capital
IsUpperOf(u, s) ==
    /\ Len(u) = Len(s)
    /\ \A i \in 1..Len(s) :
          IF \E k \in 1..26 : LowerCase[k] = s[i]
          THEN \E k \in 1..26 : LowerCase[k] = s[i] /\ UpperCase[k] = u[i]
          ELSE u[i] = s[i]

\* the component of path that follows output_folder and a '/', as long as
\* the module code
CodeComponent(path) ==
    SubSeq(path, Len(output_folder) + 2,
           Len(output_folder) + 1 + Len(caller.module_code))

\* path is output_folder/CODE/papers followed by rest, CODE being the
\* caller's module code in capitals
UnderUpperCaseCode(path, rest) ==
    /\ IsUpperOf(CodeComponent(path), caller.module_code)
    /\ path = output_folder \o <<"/">> \o CodeComponent(path) \o <<"/">>
                 \o Papers \o rest

\* C17: the module code sent as code_value_1 with the listing GET, and the
\* module-code component of the output directory and of every target path,
\* is the uppercase form of the module code the caller was given, whether
\* that was written in lowercase, mixed case or capitals.
C17_UpperCaseModuleCode ==
    /\ exam_data # <<>> =>
          IsUpperOf(exam_data[1].code_value_1, caller.module_code)
    /\ output_path # <<>> => UnderUpperCaseCode(output_path, <<>>)
    /\ \A t \in Tasks :
          UnderUpperCaseCode(ThreadFilePath(threads[t]),
                             <<"/">> \o Filename(threads[t]))

\* the caller was given "Mt201a": the listing was asked for MT201A and a
\* task wrote its file under out/MT201A/papers
C17_Witness ==
    /\ caller.module_code = <<"M", "t", "2", "0", "1", "a">>
    /\ exam_data = <<[code_value_1 |-> <<"M", "T", "2", "0", "1", "A">>]>>
    /\ \E t \in Tasks :
          /\ threads[t].wrote
          /\ CodeComponent(ThreadFilePath(threads[t]))
                = <<"M", "T", "2", "0", "1", "A">>

\* C18: a download task whose GET is answered with a status other than 200
\* creates and modifies no file (it never reaches the isfile test, the open
\* or the write, and its file changes only if another task writes it), and
\* it invokes the progress callback exactly once before it ends.
C18_FailedDownload ==
    \A t \in Tasks :
       threads[t].status \notin {0, 200} =>
          /\ threads[t].wrote = FALSE
          /\ threads[t].pc \in {"update", "store", "callback", "done"}
          /\ files[Filename(threads[t])] # initial_fs.files[Filename(threads[t])]
                => Writers(Filename(threads[t])) \ {t} # {}
          /\ threads[t].gets = 1
          /\ threads[t].calls <= 1
          /\ (threads[t].pc = "done" /\ progress_callback) =>
                threads[t].calls = 1
          /\ threads[t].calls = 1 => threads[t].pc = "done"

\* a task answered 404 has ended after one callback, and no file of its
\* name exists
C18_Witness ==
    \E t \in Tasks :
       /\ threads[t].status = 404
       /\ threads[t].pc = "done"
       /\ threads[t].calls = 1
       /\ files[Filename(threads[t])] = Absent

\* C19: a download task whose GET is answered 200 and whose target file is
\* absent writes the full body and invokes the progress callback only after
\* the write: whenever a task that wrote is at its callback invocation, its
\* file exists with the full body.
C19_FileCompleteAtCallback ==
    \A t \in Tasks :
       (progress_callback /\ threads[t].wrote /\ threads[t].pc = "callback") =>
          files[Filename(threads[t])] = Body(threads[t].url)

\* the modules workers were created for since the last click on Start
WorkerModules == [w \in 1..Len(gui.workers) |-> gui.workers[w].module]

FirstIndex(q, x) ==
    CHOOSE i \in 1..Len(q) : q[i] = x /\ \A j \in 1..(i - 1) : q[j] # x

\* queue holds each entry of selected once, in the order of first occurrence
InSelectionOrder(queue, selected) ==
    /\ \A i, j \in 1..Len(queue) : i # j => queue[i] # queue[j]
    /\ {queue[i] : i \in 1..Len(queue)}
          = {selected[i] : i \in 1..Len(selected)}
    /\ \A i, j \in 1..Len(queue) :
          i < j => FirstIndex(selected, queue[i]) < FirstIndex(selected, queue[j])

\* C20: the scrape queue of the MainWindow runs start once per selected
\* module, one after the other, in selection order with duplicates removed:
\* the workers created so far are for the first modules of the queue in
\* order, at most one worker is running at any time, the worker for module
\* k+1 is created only after the finished signal of the worker for module k
\* has been delivered with success, and a queue that ends in success has had
\* one worker for each of its modules.
C20_QueueSequential ==
    /\ InSelectionOrder(gui.modules_to_scrape, gui.selected)
    /\ Len(gui.workers) <= Len(gui.modules_to_scrape)
    /\ \A w \in 1..Len(gui.workers) :
          WorkerModules[w] = gui.modules_to_scrape[w]
    /\ Cardinality({w \in 1..Len(gui.workers) :
                       gui.workers[w].state = "running"}) <= 1
    /\ \A w \in 1..(Len(gui.workers) - 1) :
          gui.workers[w].state = "handled" /\ gui.workers[w].success
    /\ (\E c \in 1..Len(gui.finished_calls) : gui.finished_calls[c].success)
          => WorkerModules = gui.modules_to_scrape

\* CS101 was checked as well as listed as a custom module, after cs101: the
\* queue is cs101, CS101, the first worker succeeded and the second is
\* running
C20_Witness ==
    /\ gui.selected = << <<"c", "s", "1", "0", "1">>, <<"C", "S", "1", "0", "1">>,
                         <<"C", "S", "1", "0", "1">> >>
    /\ Len(gui.modules_to_scrape) = 2
    /\ Len(gui.workers) = 2
    /\ gui.workers[1].success
    /\ gui.workers[2].state = "running"

\* positions of papers whose filename holds an allowed year, and the k-th of
\* them
KeptPositions ==
    {i \in 1..Len(papers) : YearInFilename(papers[i], allowed_years)}
KthKept(k) ==
    CHOOSE i \in KeptPositions :
       Cardinality({j \in KeptPositions : j <= i}) = k

\* C21: the year filter appends each PDF candidate at most once, however
\* many allowed years occur in its filename, and drops it when none does:
\* the filtered list is the subsequence of the candidate list at the
\* positions whose filename holds an allowed year, in the same order, with
\* an href that the listing page carries twice kept twice.
C21_FirstMatchSubsequence ==
    Filtered =>
       /\ Len(filtered_papers) = Cardinality(KeptPositions)
       /\ \A k \in 1..Len(filtered_papers) :
             filtered_papers[k] = papers[KthKept(k)]

\* the link e2021_2022.pdf twice on the page, both of its years allowed: it
\* is kept twice, once per occurrence
C21_Witness ==
    /\ Filtered
    /\ allowed_years = {Year2021, Year2022}
    /\ papers = <<HrefTwoYears, HrefTwoYears>>
    /\ filtered_papers = <<HrefTwoYears, HrefTwoYears>>

\* positions of the listing page that hold an anchor whose href ends in the
\* four characters ".pdf", and the k-th of them
PdfPositions == {i \in 1..Len(soup) : IsPdfLink(soup[i])}
KthPdf(k) ==
    CHOOSE i \in PdfPositions : Cardinality({j \in PdfPositions : j <= i}) = k

\* the link scan has run over the listing page
Extracted == pc \in {"mkdir", "filter", "spawn", "join", "returned"}

\* C22: link extraction keeps an anchor exactly when its href ends with the
\* exact lowercase suffix ".pdf": hrefs ending in ".PDF" or ".Pdf", hrefs
\* whose ".pdf" is followed by a query string or a fragment, and anchors
\* without an href are not among the papers.
C22_ExactPdfSuffix ==
    Extracted =>
       /\ Len(papers) = Cardinality(PdfPositions)
       /\ \A k \in 1..Len(papers) : papers[k] = soup[KthPdf(k)].attrs.href
       /\ \A h \in {HrefUpperPdf, HrefMixedPdf, HrefPdfQuery, HrefPdfFragment} :
             InSeq(h, papers) = FALSE

\* a page with e2021.pdf?x and exam_2021_may.pdf: only the second is a paper
C22_Witness ==
    /\ Extracted
    /\ soup = <<Anchor(HrefPdfQuery), Anchor(HrefExam2021)>>
    /\ papers = <<HrefExam2021>>

\* the value of the first input named form_build_id of the page
IsFormBuildIdOf(v, page) ==
    \E i \in 1..Len(page) :
       /\ page[i].tag = "input"
       /\ "name" \in DOMAIN page[i].attrs
       /\ page[i].attrs.name = FormBuildIdName
       /\ page[i].attrs.value = v
       /\ \A j \in 1..(i - 1) :
             ~(/\ page[j].tag = "input"
               /\ "name" \in DOMAIN page[j].attrs
               /\ page[j].attrs.name = FormBuildIdName)

\* C23: login success is decided by the status code of the login POST
\* alone: once the POST is answered 200 start is on its way to the listing
\* GET or past it, whatever the body of the response, a body that shows the
\* login form again included; and the payload posted has exactly the fields
\* name, pass, form_id = user_login and form_build_id, the latter being the
\* value found on the landing page.
C23_LoginByStatusOnly ==
    /\ http.login_status = 200 => (pc = "listing_get" \/ http.listing = 1)
    /\ (http.login = 1 /\ http.listing = 0) =>
          /\ Len(login_data) = 1
          /\ DOMAIN login_data[1] = {"name", "pass", "form_id", "form_build_id"}
          /\ login_data[1].name = "username"
          /\ login_data[1].pass = "password"
          /\ login_data[1].form_id = "user_login"
          /\ IsFormBuildIdOf(login_data[1].form_build_id, login_page.page)
    /\ pc = "login_post" =>
          /\ Len(login_data) = 1
          /\ IsFormBuildIdOf(login_data[1].form_build_id, login_page.page)

\* the login POST was answered 200 with a page that shows the login form
\* again, and start is about to issue the listing GET
C23_Witness ==
    /\ pc = "listing_get"
    /\ http.login_status = 200
    /\ HasFormBuildId(res.page)
    /\ login_data[1].form_build_id = TokenB

\* the worker w has emitted finished(False, ...)
EmittedFailure(w) ==
    /\ gui.workers[w].state \in {"emitted", "handled"}
    /\ gui.workers[w].success = FALSE

\* a worker was created for every module of the queue, and the finished
\* signal of each was delivered with success
AllModulesSucceeded ==
    /\ Len(gui.workers) = Len(gui.modules_to_scrape)
    /\ \A w \in 1..Len(gui.workers) :
          gui.workers[w].state = "handled" /\ gui.workers[w].success

\* C24: in the scrape queue, once the worker of a module has emitted
\* finished with success False no worker exists for a later module and the
\* current index stays at that module; when the signal is delivered
\* on_scraper_finished is called once, with False and that worker's
\* message, and never again; on_scraper_finished(True, ...) is called once,
\* and exactly when every module of the queue has finished with success.
C24_QueueStopsAtFailure ==
    /\ Len(gui.finished_calls) <= 1
    /\ \A w \in 1..Len(gui.workers) :
          EmittedFailure(w) =>
             /\ w = Len(gui.workers)
             /\ gui.current_scrape_index = w - 1
             /\ gui.workers[w].message \in {r.msg : r \in StartResults \ {RetTrue}}
             /\ gui.finished_calls =
                   IF gui.workers[w].state = "handled"
                   THEN <<[success |-> FALSE,
                           message |-> gui.workers[w].message]>>
                   ELSE <<>>
    /\ (\E c \in 1..Len(gui.finished_calls) : gui.finished_calls[c].success)
          <=> (gui.modules_to_scrape # <<>> /\ AllModulesSucceeded)
    /\ \A c \in 1..Len(gui.finished_calls) :
          gui.finished_calls[c].success =>
             gui.finished_calls[c].message = MsgAllScraped

\* a queue of two modules: the first succeeded, the second failed with
\* "Invalid credentials", and on_scraper_finished was called with it
C24_Witness ==
    /\ Len(gui.modules_to_scrape) = 2
    /\ Len(gui.workers) = 2
    /\ gui.workers[1].success
    /\ gui.workers[2].state = "handled" /\ ~gui.workers[2].success
    /\ gui.current_scrape_index = 1
    /\ gui.finished_calls =
          <<[success |-> FALSE, message |-> ErrInvalidCredentials.msg]>>

\* a worker whose run has not ended, or whose finished signal is still to
\* be delivered
WorkerPending ==
    \E w \in 1..Len(gui.workers) :
       gui.workers[w].state \in {"running", "emitted"}

\* a worker whose run ended without emitting finished
WorkerRaised ==
    \E w \in 1..Len(gui.workers) : gui.workers[w].state = "raised"

\* the button is disabled exactly from the click that passes validation to
\* the call of on_scraper_finished
DisabledWhileQueueRuns ==
    /\ gui.start_enabled =>
          \A w \in 1..Len(gui.workers) : gui.workers[w].state = "handled"
    /\ ~gui.start_enabled =>
          (gui.workers # <<>> /\ gui.finished_calls = <<>>)
    /\ gui.finished_calls # <<>> => gui.start_enabled

\* while a worker is pending no click starts a queue
NoSecondQueue ==
    WorkerPending =>
       /\ gui'.selected = gui.selected
       /\ gui'.modules_to_scrape = gui.modules_to_scrape
       /\ Len(gui'.workers) >= Len(gui.workers)
       /\ \A w \in 1..Len(gui.workers) :
             gui'.workers[w].module = gui.workers[w].module

\* C25: the Start button is disabled from the moment start_scraper passes
\* validation until on_scraper_finished runs, so that no second scrape queue
\* is started while a worker is running; and if every worker emits finished
\* the button is enabled again in the end, whether the queue ends in
\* success or at its first failure.
C25_StartButton ==
    /\ []DisabledWhileQueueRuns
    /\ [][NoSecondQueue]_vars
    /\ (~gui.start_enabled) ~> (gui.start_enabled \/ WorkerRaised)

\* the queue has ended at a failure and the button is enabled again
C25_Witness ==
    /\ gui.start_enabled
    /\ Len(gui.finished_calls) = 1
    /\ ~gui.finished_calls[1].success
    /\ Len(gui.workers) = 2

\* C26: across the N callback invocations of one start call the
\* current_count arguments are the values 1..N, each exactly once, and
\* total_count is N in every invocation, under every interleaving of the
\* download threads.
C26_CountsOneToN ==
    (ReturnedFromDownloads /\ progress_callback /\ NoTaskRaised) =>
       /\ \A t \in Tasks : threads[t].of = Len(filtered_papers)
       /\ {threads[t].arg : t \in Tasks} = 1..Len(filtered_papers)
       /\ \A t, u \in Tasks : t # u => threads[t].arg # threads[u].arg

\* start has returned the message that no paper is in the allowed years
ReturnedNoPapersInYears ==
    /\ pc = "returned"
    /\ result.type = "str"
    /\ result.msg = MsgNoPapersInYears(<<>>, <<>>).msg

\* C27: when start returns the no-papers-in-year-range message the output
\* directory exists: it was there before the call, or start made it after
\* the PDF-link check and before the year filter, and the failure removes
\* neither it nor any file in it.
C27_DirLeftInPlace ==
    ReturnedNoPapersInYears =>
       /\ papers # <<>> /\ filtered_papers = <<>>
       /\ dir_exists
       /\ output_path # <<>>
       /\ mkdirs = IF initial_fs.dir THEN 0 ELSE 1
       /\ files = initial_fs.files

\* the directory was missing before the call and is there when start
\* returns that no paper is in the year 2021
C27_Witness ==
    /\ result = MsgNoPapersInYears(Year2021, Year2021)
    /\ pc = "returned"
    /\ initial_fs.dir = FALSE
    /\ dir_exists

\* the landing response is not 200 and its body has no form_build_id field
LandingFailedWithoutForm ==
    /\ pc = "login_check"
    /\ login_page.status # 200
    /\ FindInput(login_page.page, FormBuildIdName) = <<>>

\* from there start goes to the listing GET without a login POST and
\* without returning
SkipsLoginAndGoesOn ==
    LandingFailedWithoutForm =>
       /\ pc' = "listing_get"
       /\ http'.login = 0
       /\ result' = NoResult

\* a return before the extraction of links is one of the two error strings,
\* each after the non-200 response of its own request
AbortsBeforeExtraction ==
    /\ pc = "returned" =>
          /\ result = ErrInvalidCredentials <=>
                (http.login = 1 /\ http.login_status # 200 /\ http.listing = 0)
          /\ result = ErrUnableToFetch <=>
                (http.listing = 1 /\ http.listing_status # 200)
          /\ result \notin {ErrInvalidCredentials, ErrUnableToFetch} =>
                (http.listing = 1 /\ http.listing_status = 200)
    /\ pc \in {"landing_get", "login_check", "login_post", "listing_get"} =>
          result = NoResult

\* C28: the status of the landing GET is never checked: after a non-200
\* landing response without a form_build_id field start does not abort, it
\* posts no login and goes on to the listing GET; start returns before the
\* extraction only on a non-200 login POST or a non-200 listing GET.
C28_LandingStatusNotChecked ==
    /\ []AbortsBeforeExtraction
    /\ [][SkipsLoginAndGoesOn]_vars

\* start is at the listing GET after a 503 landing response without the
\* form field
C28_Witness ==
    /\ pc = "listing_get"
    /\ login_page.status = 503
    /\ FindInput(login_page.page, FormBuildIdName) = <<>>
    /\ http.login = 0
    /\ result = NoResult

\* tasks that ended in an exception: the GET raised, or open or write did
RaisedTasks == {t \in Tasks : threads[t].pc = "raised"}

\* C29: a download task that ends abnormally (its GET raises, or writing the
\* file fails) never invokes the progress callback; every other task still
\* requests once and invokes the callback once; start joins every thread
\* and returns True, so fewer than N invocations are made for N links.
C29_RaisedTaskIsSilent ==
    /\ \A t \in RaisedTasks : threads[t].calls = 0 /\ threads[t].arg = 0
    /\ (ReturnedFromDownloads /\ RaisedTasks # {}) =>
          /\ result = RetTrue
          /\ Len(threads) = Len(filtered_papers)
          /\ joined = Len(threads)
          /\ \A t \in Tasks \ RaisedTasks :
                /\ threads[t].pc = "done"
                /\ threads[t].gets = 1
                /\ threads[t].calls = IF progress_callback THEN 1 ELSE 0
          /\ progress_callback => CallbackCalls < Len(filtered_papers)
          /\ CallbackCalls = IF progress_callback
                             THEN Len(filtered_papers) - Cardinality(RaisedTasks)
                             ELSE 0

\* start has returned True after two downloads: the first failed while
\* writing its file, the second invoked the callback
C29_Witness ==
    /\ pc = "returned"
    /\ result = RetTrue
    /\ progress_callback
    /\ Len(threads) = 2
    /\ threads[1].pc = "raised" /\ threads[1].status = 200
    /\ threads[2].pc = "done" /\ threads[2].calls = 1
    /\ CallbackCalls = 1

\* the call of start ends
StartTerminates == <>(pc = "returned")

\* C30: when every request that start and its download tasks issue is
\* answered and the download threads are scheduled fairly, every call of
\* start eventually returns, and what it returns is True or a string.
C30_EventuallyReturns ==
    <>(pc = "returned" /\ result.type \in {"bool", "str"})

====
